---- MODULE Spec2Model ----
(***************************************************************************)
(* Model of the payroll-invoicer allocation pipeline:                      *)
(*   - the allocation workbook parser that fans an employee's top-table    *)
(*     percentages out through the SC / NI LLC / JV III / Marketing tables *)
(*     (src/unnamed/part_011, parseAllocationWorkbook + applyDist),        *)
(*   - the simplified-table parser that renormalizes a row to sum 1        *)
(*     (src/lib/allocation/parseAllocationWorkbook.ts, lines 29-102),      *)
(*   - the invoice engine (src/lib/invoicing/buildInvoices.ts, 106-250).   *)
(*                                                                         *)
(* JavaScript numbers are modelled as exact rationals [n, d] in lowest     *)
(* terms (d > 0); floating-point rounding error is not modelled.  A JS     *)
(* Record<string, number> is modelled as a function over a fixed key       *)
(* universe in which the value 0 stands for "key absent": every map of the *)
(* code only ever stores non-zero values, or skips zero values on reading. *)
(***************************************************************************)
EXTENDS Integers, Sequences, FiniteSets, TLC

----------------------------------------------------------------------------
(* Bounds of the model *)

\* rows of the allocation sheet that are parsed in one run
MaxRows == 1

\* payroll employees processed by one buildInvoices call
MaxPayrollEmployees == 2

\* allocation employees in the table handed to buildInvoices directly
MaxAllocEmployees == 2

----------------------------------------------------------------------------
(* Numbers *)

Abs(x) == IF x < 0 THEN -x ELSE x

RECURSIVE Gcd(_, _)
Gcd(a, b) == IF b = 0 THEN a ELSE Gcd(b, a % b)

\* the number n/d, in lowest terms with a positive denominator
Rat(n, d) ==
  LET g == Gcd(Abs(n), Abs(d))
      s == IF d < 0 THEN -1 ELSE 1
  IN  [n |-> (s * n) \div g, d |-> (s * d) \div g]

Zero == [n |-> 0, d |-> 1]
One == [n |-> 1, d |-> 1]
Hundred == [n |-> 100, d |-> 1]

RAdd(a, b) == Rat(a.n * b.d + b.n * a.d, a.d * b.d)
RSub(a, b) == Rat(a.n * b.d - b.n * a.d, a.d * b.d)
RMul(a, b) == Rat(a.n * b.n, a.d * b.d)
\* a / b for b # 0
RDiv(a, b) == Rat(a.n * b.d, a.d * b.n)
\* a < b: the integer parts are compared first, so that the products stay small
RLt(a, b) ==
  IF a.d = 0 \/ b.d = 0 THEN a.n * b.d < b.n * a.d
  ELSE \/ a.n \div a.d < b.n \div b.d
       \/ /\ a.n \div a.d = b.n \div b.d
          /\ (a.n % a.d) * b.d < (b.n % b.d) * a.d
RLe(a, b) == a = b \/ RLt(a, b)
RAbs(a) == [n |-> Abs(a.n), d |-> a.d]

\* the sum of f over the finite set S of keys
RECURSIVE RSum(_, _)
RSum(f, S) ==
  IF S = {} THEN Zero
  ELSE LET k == CHOOSE x \in S : TRUE IN RAdd(f[k], RSum(f, S \ {k}))

\* the sum of the numbers of a sequence
RECURSIVE RSumSeq(_)
RSumSeq(s) == IF s = <<>> THEN Zero ELSE RAdd(Head(s), RSumSeq(Tail(s)))

----------------------------------------------------------------------------
(* The allocation workbook parser with redistribution tables (part_011) *)

\* property rows of the SC, NI LLC and JV III breakout tables of the sheet
SCProps == {"3610", "3620"}
NIProps == {"4010"}
JVProps == {"5010"}

\* "Direct property code mapping": header text -> property key
directMap ==
  [c \in {"LIK", "Office Works", "Interstate", "Eastwick", "Middeltown", "Middletown"} |->
     CASE c = "LIK" -> "2010"
       [] c = "Office Works" -> "4900"
       [] c = "Interstate" -> "0800"
       [] c = "Eastwick" -> "1500"
       [] OTHER -> "MIDDLETOWN"]

DirectKeys == {directMap[c] : c \in DOMAIN directMap}

\* every property key the parser can produce a weight for
PropKeys == DirectKeys \cup SCProps \cup NIProps \cup JVProps

\* header cells between column 1 and the Total column of the top table
TopCols == <<"LIK", "SC", "JV III", "Marketing", "Misc">>
TopColSet == {TopCols[i] : i \in 1..Len(TopCols)}

\* group labels of the Marketing breakdown table, in row order
MktRows == <<"SC", "NI LLC", "JV III">>
MktKeys == {MktRows[i] : i \in 1..Len(MktRows)}

\* normGroup on the header and label texts of the sheets of the model:
\* trim, collapse blanks, upper-case, then the prefix rules
normGroup(s) ==
  CASE s = "SC" -> "SC"
    [] s = "NI LLC" -> "NI LLC"
    [] s = "JV III" -> "JV III"
    [] s = "Marketing" -> "MARKETING"
    [] s = "Misc" -> "MISC"
    [] s = "LIK" -> "LIK"
    [] OTHER -> s

\* the row of a property in its breakout table
propRank(k) == CASE k = "3610" -> 1 [] k = "3620" -> 2 [] OTHER -> 1

\* n > 1.000001 ? n / 100 : n   (toNum of a number cell is the number)
normalizePct(v) ==
  IF RLt([n |-> 1000001, d |-> 1000000], v) THEN RDiv(v, Hundred) ELSE v

ZeroWeights == [k \in PropKeys |-> Zero]

\* applyDist with a plausible bug: a split without a positive share hands the
\* whole percent to its first property instead of dropping it
applyDistFallback(target, dist, pct) ==
  IF \A k \in DOMAIN dist : ~ RLt(Zero, normalizePct(dist[k]))
  THEN LET first == CHOOSE k \in DOMAIN dist : \A j \in DOMAIN dist : propRank(k) <= propRank(j)
       IN  [target EXCEPT ![first] = RAdd(@, pct)]
  ELSE [k \in PropKeys |->
          IF k \in DOMAIN dist /\ RLt(Zero, normalizePct(dist[k]))
          THEN RAdd(target[k], RMul(pct, normalizePct(dist[k])))
          ELSE target[k]]

\* for (k, v) of dist: w = normalizePct(v); if (w <= 0) continue;
\*   target[k] = (target[k] ?? 0) + pct * w
applyDist(target, dist, pct) ==
  [k \in PropKeys |->
     IF k \in DOMAIN dist /\ RLt(Zero, normalizePct(dist[k]))
     THEN RAdd(target[k], RMul(pct, normalizePct(dist[k])))
     ELSE target[k]]

\* the loop over the Marketing breakdown table for one "MARKETING" entry:
\* rows i..end of mkt (a function over MktKeys), always through the NR tables
RECURSIVE applyMarketing(_, _, _, _, _)
applyMarketing(weights, t, e, pct, i) ==
  IF i > Len(MktRows) THEN weights
  ELSE
    LET mg == MktRows[i]
        sub == RMul(pct, normalizePct(t.mktGroups[mg]))
        next ==
          IF ~ RLt(Zero, sub) THEN weights
          ELSE IF mg = "SC" THEN applyDist(weights, t.scNR, sub)
          ELSE IF mg = "NI LLC" THEN applyDist(weights, t.niNR, sub)
          ELSE IF mg = "JV III" THEN applyDist(weights, t.jvPRS, sub)
          ELSE weights
    IN  applyMarketing(next, t, e, pct, i + 1)

\* the Marketing branch with a plausible bug: the second step follows the
\* employee's own recoverable flag
marketingStepByFlag(weights, t, e, pct) ==
  LET sc == IF e.recoverable THEN t.scREC ELSE t.scNR
      ni == IF e.recoverable THEN t.niREC ELSE t.niNR
      subOf(mg) == RMul(pct, normalizePct(t.mktGroups[mg]))
      step(w, mg, dist) == IF RLt(Zero, subOf(mg)) THEN applyDist(w, dist, subOf(mg)) ELSE w
  IN  step(step(step(weights, "SC", sc), "NI LLC", ni), "JV III", t.jvPRS)

\* if (g === "MARKETING") { for (const [mg, mp] of Object.entries(mktGroups)) ... }
marketingStep(weights, t, e, pct) == applyMarketing(weights, t, e, pct, 1)

\* one iteration of "for (const [col, raw] of Object.entries(e.topAlloc))"
expandEntry(weights, t, e, col) ==
  LET pct == normalizePct(e.topAlloc[col])
      g == normGroup(col)
  IN  IF ~ RLt(Zero, pct) THEN weights
      ELSE IF col \in DOMAIN directMap
        THEN [weights EXCEPT ![directMap[col]] = RAdd(@, pct)]
      ELSE IF g = "SC"
        THEN applyDist(weights, IF e.recoverable THEN t.scREC ELSE t.scNR, pct)
      ELSE IF g = "NI LLC"
        THEN applyDist(weights, IF e.recoverable THEN t.niREC ELSE t.niNR, pct)
      ELSE IF g = "JV III"
        THEN applyDist(weights, t.jvPRS, pct)
      ELSE IF g = "MARKETING"
        THEN marketingStep(weights, t, e, pct)
      ELSE weights   \* unknown column: ignored

\* the weights after the entries of the first n columns of the top table
RECURSIVE expandPrefix(_, _, _)
expandPrefix(t, e, n) ==
  IF n = 0 THEN ZeroWeights
  ELSE expandEntry(expandPrefix(t, e, n - 1), t, e, TopCols[n])

\* "Build employee weights" for one employee of the top table
expandWeights(t, e) == expandPrefix(t, e, Len(TopCols))

\* what the iteration for column number i added to each property's weight
entryPart(t, e, i) ==
  [k \in PropKeys |-> RSub(expandPrefix(t, e, i)[k], expandPrefix(t, e, i - 1)[k])]

\* lib/utils normalizeWeights: every weight divided by the sum of the weights;
\* a map whose sum is 0 becomes the empty map
normalizeWeights(w) ==
  LET sum == RSum(w, DOMAIN w)
  IN  IF sum = Zero THEN [k \in DOMAIN w |-> Zero]
      ELSE [k \in DOMAIN w |-> RDiv(w[k], sum)]

\* the labels the parser gives the properties it discovers (propSet)
propLabel(k) ==
  CASE k = "2010" -> "LIK (2010)"
    [] k = "4900" -> "Office Works (4900)"
    [] k = "0800" -> "Interstate (0800)"
    [] k = "1500" -> "Eastwick (1500)"
    [] k = "MIDDLETOWN" -> "Middletown"
    [] k = "3610" -> "SC 3610"
    [] k = "3620" -> "SC 3620"
    [] k = "4010" -> "NI LLC 4010"
    [] k = "5010" -> "JV III 5010"
    [] OTHER -> k

----------------------------------------------------------------------------
(* The simplified-table parser (lib/allocation/parseAllocationWorkbook.ts) *)

\* the property columns of the simplified table
SimpleCols == {"2010", "4900"}

\* normalizePct of a formatted cell: blank, a number text or a "..%" text
simpleNormalizePct(c) ==
  IF c.kind = "blank" THEN Zero
  ELSE IF c.kind = "pct" THEN (IF c.v = Zero THEN Zero ELSE RDiv(c.v, Hundred))
  ELSE IF c.v = Zero THEN Zero
  ELSE IF RLt(One, c.v) THEN RDiv(c.v, Hundred) ELSE c.v

\* const top = {}; for (c of propCols) { pct = normalizePct(..); if (pct) top[c.key] = pct }
simpleTop(cells) == [k \in SimpleCols |-> simpleNormalizePct(cells[k])]

\* "Normalize to sum 1": if (sum > 0) for (k of keys) top[k] = top[k] / sum
normalizeTop(top) ==
  LET sum == RSum(top, DOMAIN top)
  IN  IF RLt(Zero, sum) THEN [k \in DOMAIN top |-> RDiv(top[k], sum)] ELSE top

----------------------------------------------------------------------------
(* The invoice engine (lib/invoicing/buildInvoices.ts, lines 106-250) *)

\* Names are sequences of one-character strings.
UpperChars == <<"A", "B", "C", "D", "E", "F", "G", "H", "I", "J", "K", "L", "M",
                "N", "O", "P", "Q", "R", "S", "T", "U", "V", "W", "X", "Y", "Z">>
LowerChars == <<"a", "b", "c", "d", "e", "f", "g", "h", "i", "j", "k", "l", "m",
                "n", "o", "p", "q", "r", "s", "t", "u", "v", "w", "x", "y", "z">>
DigitChars == {"0", "1", "2", "3", "4", "5", "6", "7", "8", "9"}

\* String.prototype.toLowerCase on one character
lowerOf == [c \in {UpperChars[i] : i \in 1..26} |->
              LowerChars[CHOOSE i \in 1..26 : UpperChars[i] = c]]
toLowerCase(c) == IF c \in DOMAIN lowerOf THEN lowerOf[c] ELSE c

\* the class [a-z0-9\s] of the first replace of normName
nameChars == {LowerChars[i] : i \in 1..26} \cup DigitChars \cup {" "}
isNameChar(c) == c \in nameChars

\* .replace(/\s+/g, " ") and the leading half of .trim(): a run of blanks
\* becomes one blank, and blanks at the start are dropped
RECURSIVE squeeze(_, _)
squeeze(s, afterBlank) ==
  IF s = <<>> THEN <<>>
  ELSE IF Head(s) = " "
    THEN (IF afterBlank THEN squeeze(Tail(s), TRUE) ELSE <<" ">> \o squeeze(Tail(s), TRUE))
    ELSE <<Head(s)>> \o squeeze(Tail(s), FALSE)

normName(s) ==
  LET lowered == [i \in 1..Len(s) |-> toLowerCase(s[i])]
      cleaned == [i \in 1..Len(s) |-> IF isNameChar(lowered[i]) THEN lowered[i] ELSE " "]
      sq == squeeze(cleaned, TRUE)
  IN  IF sq # <<>> /\ sq[Len(sq)] = " " THEN SubSeq(sq, 1, Len(sq) - 1) ELSE sq

\* the characters of n after its last blank
RECURSIVE lastToken(_)
lastToken(n) ==
  IF n = <<>> THEN <<>>
  ELSE IF \E i \in 1..Len(n) : n[i] = " " THEN lastToken(Tail(n))
  ELSE n

\* parts = normName(s).split(" ").filter(Boolean); the last part, or n
lastName(s) == lastToken(normName(s))

firstInitial(s) == LET n == normName(s) IN IF n = <<>> THEN <<>> ELSE <<n[1]>>

\* a number that is not finite (NaN, Infinity) is written with denominator 0
isFinite(raw) == raw.d # 0

\* pickAllocPct with a plausible bug: every value above 1 is taken for a percent
pickAllocPctAboveOne(raw) ==
  IF ~ isFinite(raw) \/ RLe(raw, Zero) THEN Zero
  ELSE IF RLt(One, raw) THEN RDiv(raw, Hundred)
  ELSE raw

pickAllocPct(raw) ==
  IF ~ isFinite(raw) \/ RLe(raw, Zero) THEN Zero
  ELSE IF RLt([n |-> 3, d |-> 2], raw) THEN RDiv(raw, Hundred)
  ELSE raw

Lines == <<"salaryREC", "salaryNR", "overtime", "holREC", "holNR", "er401k", "total">>
LineSet == {Lines[i] : i \in 1..Len(Lines)}
\* the six line categories of an invoice
CategorySet == LineSet \ {"total"}

\* no allocation record (undefined)
NoAlloc == [name |-> <<>>, recoverable |-> FALSE, allocations |-> <<>>, none |-> TRUE]

\* const entry = { name, recoverable: !!ae.recoverable, allocations: ae.allocations ?? {} }
entryOf(ae) ==
  [name |-> ae.name, recoverable |-> ae.recoverable, allocations |-> ae.allocations,
   none |-> FALSE]

\* byFull.get(f) with a plausible bug: the index keeps the first employee
\* with the key
byFullGetFirst(alloc, f) ==
  LET hits == {i \in 1..Len(alloc.employees) : normName(alloc.employees[i].name) = f}
  IN  IF hits = {} THEN NoAlloc
      ELSE entryOf(alloc.employees[CHOOSE i \in hits : \A j \in hits : i <= j])

\* byFull.get(f): byFull.set(f, entry) runs for every allocation employee in
\* sheet order, so the last employee with the key is the one stored
byFullGet(alloc, f) ==
  LET hits == {i \in 1..Len(alloc.employees) : normName(alloc.employees[i].name) = f}
  IN  IF hits = {} THEN NoAlloc
      ELSE entryOf(alloc.employees[CHOOSE i \in hits : \A j \in hits : j <= i])

\* byLast.get(l) ?? []: the entries with the last-name key, in sheet order
byLastGet(alloc, l) ==
  LET sel(ae) == lastName(ae.name) = l
      found == SelectSeq(alloc.employees, sel)
  IN  [i \in 1..Len(found) |-> entryOf(found[i])]

\* findAlloc with a plausible bug: with no candidate at all, the first
\* allocation employee is taken
findAllocFirstRow(alloc, empName) ==
  LET direct == byFullGet(alloc, normName(empName))
      candidates == byLastGet(alloc, lastName(empName))
      fi == firstInitial(empName)
      matches == {i \in 1..Len(candidates) : firstInitial(candidates[i].name) = fi}
  IN  IF ~ direct.none THEN direct
      ELSE IF Len(candidates) = 1 THEN candidates[1]
      ELSE IF matches # {} THEN candidates[CHOOSE i \in matches : \A j \in matches : i <= j]
      ELSE IF candidates = <<>>
        THEN (IF alloc.employees = <<>> THEN NoAlloc ELSE entryOf(alloc.employees[1]))
      ELSE candidates[1]

\* findAlloc with a plausible bug: with no candidate at all, the last
\* allocation employee is taken
findAllocLastRow(alloc, empName) ==
  LET direct == byFullGet(alloc, normName(empName))
      candidates == byLastGet(alloc, lastName(empName))
      fi == firstInitial(empName)
      matches == {i \in 1..Len(candidates) : firstInitial(candidates[i].name) = fi}
  IN  IF ~ direct.none THEN direct
      ELSE IF Len(candidates) = 1 THEN candidates[1]
      ELSE IF matches # {} THEN candidates[CHOOSE i \in matches : \A j \in matches : i <= j]
      ELSE IF candidates = <<>>
        THEN (IF alloc.employees = <<>> THEN NoAlloc
              ELSE entryOf(alloc.employees[Len(alloc.employees)]))
      ELSE candidates[1]

\* findAlloc with a plausible bug: a single last-name candidate is returned
\* only when its first initial matches
findAllocInitialOnly(alloc, empName) ==
  LET direct == byFullGet(alloc, normName(empName))
      candidates == byLastGet(alloc, lastName(empName))
      fi == firstInitial(empName)
      matches == {i \in 1..Len(candidates) : firstInitial(candidates[i].name) = fi}
  IN  IF ~ direct.none THEN direct
      ELSE IF matches # {} THEN candidates[CHOOSE i \in matches : \A j \in matches : i <= j]
      ELSE IF Len(candidates) <= 1 THEN NoAlloc
      ELSE candidates[1]

findAlloc(alloc, empName) ==
  LET direct == byFullGet(alloc, normName(empName))
      candidates == byLastGet(alloc, lastName(empName))
      fi == firstInitial(empName)
      matches == {i \in 1..Len(candidates) : firstInitial(candidates[i].name) = fi}
  IN  IF ~ direct.none THEN direct
      ELSE IF Len(candidates) = 1 THEN candidates[1]
      ELSE IF matches # {} THEN candidates[CHOOSE i \in matches : \A j \in matches : i <= j]
      ELSE IF candidates = <<>> THEN NoAlloc
      ELSE candidates[1]

\* a freshly seeded invoice
newInvoice(p) ==
  [propertyKey |-> p.key, propertyLabel |-> p.label,
   salaryREC |-> Zero, salaryNR |-> Zero, overtime |-> Zero, holREC |-> Zero,
   holNR |-> Zero, er401k |-> Zero, total |-> Zero,
   breakdown |-> [l \in LineSet |-> <<>>]]

\* the keys of all allocation maps, for a table without properties
allocationKeys(alloc) ==
  {k \in UNION {DOMAIN alloc.employees[i].allocations : i \in 1..Len(alloc.employees)} :
     \E i \in 1..Len(alloc.employees) :
        k \in DOMAIN alloc.employees[i].allocations /\ alloc.employees[i].allocations[k] # Zero}

\* props: allocation.properties, or one property per allocation key
propsOf(alloc) ==
  IF alloc.properties # <<>>
  THEN {[key |-> alloc.properties[i].key, label |-> alloc.properties[i].label] :
          i \in 1..Len(alloc.properties)}
  ELSE {[key |-> k, label |-> k] : k \in allocationKeys(alloc)}

\* the seeding loop with a plausible bug: only the properties that an allocation
\* map refers to get an invoice
seedInvoicesActiveOnly(alloc) ==
  LET props == propsOf(alloc)
      active == {p \in props : p.key \in allocationKeys(alloc)}
  IN  [k \in {p.key : p \in active} |-> newInvoice(CHOOSE p \in active : p.key = k)]

\* invByKey after the seeding loop: invByKey.set replaces the invoice of a key
\* that is listed again
seedInvoices(alloc) ==
  LET props == propsOf(alloc)
      ps == alloc.properties
      lastOf(k) == CHOOSE i \in 1..Len(ps) :
                     ps[i].key = k /\ \A j \in 1..Len(ps) : ps[j].key = k => j <= i
  IN  [k \in {p.key : p \in props} |->
         IF ps # <<>> THEN newInvoice([key |-> k, label |-> ps[lastOf(k)].label])
         ELSE newInvoice([key |-> k, label |-> k])]

\* !amount || Math.abs(amount) < 0.00001
isDust(amount) == amount = Zero \/ RLt(RAbs(amount), [n |-> 1, d |-> 100000])

\* add with a plausible bug: the amount is recorded but the line is not increased
addNoAccumulate(inv, propKey, line, amount, employee, allocPct, baseAmount) ==
  IF isDust(amount) \/ propKey \notin DOMAIN inv THEN inv
  ELSE [inv EXCEPT ![propKey].breakdown[line] =
          Append(@, [employee |-> employee, amount |-> amount,
                     allocPct |-> allocPct, baseAmount |-> baseAmount])]

\* add with a plausible bug: an invoice is created for a key that has none
addEnsureInvoice(inv, propKey, line, amount, employee, allocPct, baseAmount) ==
  IF isDust(amount) THEN inv
  ELSE LET base == IF propKey \in DOMAIN inv THEN inv
                   ELSE [k \in DOMAIN inv \cup {propKey} |->
                           IF k = propKey THEN newInvoice([key |-> k, label |-> k])
                           ELSE inv[k]]
           added == [base EXCEPT
                       ![propKey][line] = RAdd(@, amount),
                       ![propKey].breakdown[line] =
                          Append(@, [employee |-> employee, amount |-> amount,
                                     allocPct |-> allocPct, baseAmount |-> baseAmount])]
       IN  IF line # "total" THEN [added EXCEPT ![propKey].total = RAdd(@, amount)]
           ELSE added

\* function add(propKey, line, amount, employee, allocPct, baseAmount), on the
\* map inv of invoices by key
add(inv, propKey, line, amount, employee, allocPct, baseAmount) ==
  IF isDust(amount) THEN inv
  ELSE IF propKey \notin DOMAIN inv THEN inv
  ELSE
    LET added == [inv EXCEPT
                    ![propKey][line] = RAdd(@, amount),
                    ![propKey].breakdown[line] =
                       Append(@, [employee |-> employee, amount |-> amount,
                                  allocPct |-> allocPct, baseAmount |-> baseAmount])]
    IN  IF line # "total" THEN [added EXCEPT ![propKey].total = RAdd(@, amount)]
        ELSE added

\* the entry loop body with a plausible bug: every Contribution is given the
\* whole pay of the employee as its base amount
processEntryTotalBase(inv, e, a, propKey) ==
  LET pct == pickAllocPct(a.allocations[propKey])
      isRec == a.recoverable
      salaryLine == IF isRec THEN "salaryREC" ELSE "salaryNR"
      holLine == IF isRec THEN "holREC" ELSE "holNR"
      totalBase == RAdd(RAdd(e.salaryAmt, e.overtimeAmt), RAdd(e.holAmt, e.er401k))
      i1 == add(inv, propKey, salaryLine, RMul(e.salaryAmt, pct), e.name, pct, totalBase)
      i2 == add(i1, propKey, "overtime", RMul(e.overtimeAmt, pct), e.name, pct, totalBase)
      i3 == add(i2, propKey, holLine, RMul(e.holAmt, pct), e.name, pct, totalBase)
      i4 == add(i3, propKey, "er401k", RMul(e.er401k, pct), e.name, pct, totalBase)
  IN  IF pct = Zero THEN inv
      ELSE add(i4, propKey, "total", RMul(totalBase, pct), e.name, pct, totalBase)

\* the entry loop body with a plausible bug: the salary and holiday lines do
\* not follow the recoverable flag of the record
processEntryAlwaysNR(inv, e, a, propKey) ==
  LET pct == pickAllocPct(a.allocations[propKey])
      totalBase == RAdd(RAdd(e.salaryAmt, e.overtimeAmt), RAdd(e.holAmt, e.er401k))
      i1 == add(inv, propKey, "salaryNR", RMul(e.salaryAmt, pct), e.name, pct, e.salaryAmt)
      i2 == add(i1, propKey, "overtime", RMul(e.overtimeAmt, pct), e.name, pct, e.overtimeAmt)
      i3 == add(i2, propKey, "holNR", RMul(e.holAmt, pct), e.name, pct, e.holAmt)
      i4 == add(i3, propKey, "er401k", RMul(e.er401k, pct), e.name, pct, e.er401k)
  IN  IF pct = Zero THEN inv
      ELSE add(i4, propKey, "total", RMul(totalBase, pct), e.name, pct, totalBase)

\* the body of "for (const [propKey, rawPct] of Object.entries(a.allocations))"
processEntry(inv, e, a, propKey) ==
  LET pct == pickAllocPct(a.allocations[propKey])
      isRec == a.recoverable
      salaryLine == IF isRec THEN "salaryREC" ELSE "salaryNR"
      holLine == IF isRec THEN "holREC" ELSE "holNR"
      totalBase == RAdd(RAdd(e.salaryAmt, e.overtimeAmt), RAdd(e.holAmt, e.er401k))
      i1 == add(inv, propKey, salaryLine, RMul(e.salaryAmt, pct), e.name, pct, e.salaryAmt)
      i2 == add(i1, propKey, "overtime", RMul(e.overtimeAmt, pct), e.name, pct, e.overtimeAmt)
      i3 == add(i2, propKey, holLine, RMul(e.holAmt, pct), e.name, pct, e.holAmt)
      i4 == add(i3, propKey, "er401k", RMul(e.er401k, pct), e.name, pct, e.er401k)
  IN  IF pct = Zero THEN inv
      ELSE add(i4, propKey, "total", RMul(totalBase, pct), e.name, pct, totalBase)

\* the entries of the allocation map a, over the keys of the set S
RECURSIVE processEntries(_, _, _, _)
processEntries(inv, e, a, S) ==
  IF S = {} THEN inv
  ELSE LET k == CHOOSE x \in S : TRUE
       IN  processEntries(processEntry(inv, e, a, k), e, a, S \ {k})

\* one iteration of "for (const emp of payroll.employees)"
processEmployee(inv, alloc, e) ==
  LET a == findAlloc(alloc, e.name)
  IN  IF a.none THEN inv ELSE processEntries(inv, e, a, DOMAIN a.allocations)

\* Math.round(x * 100) / 100: the nearest cent, a half cent going up
roundCents(x) == Rat((200 * x.n + x.d) \div (2 * x.d), 100)

\* the rounding loop over the seven numeric fields of one invoice
roundInvoice(v) ==
  [f \in DOMAIN v |-> IF f \in LineSet THEN roundCents(v[f]) ELSE v[f]]

\* the position of a property key in the order of String.prototype.localeCompare
\* (digits before letters, letters alphabetically whatever their case, lower
\* case before upper case of the same letters), for the keys of the model
collationRank(k) ==
  CASE k = "0800" -> 1
    [] k = "1500" -> 2
    [] k = "2010" -> 3
    [] k = "3610" -> 4
    [] k = "3620" -> 5
    [] k = "4010" -> 6
    [] k = "4900" -> 7
    [] k = "5010" -> 8
    [] k = "9999" -> 9
    [] k = "a" -> 10
    [] k = "B" -> 11
    [] k = "lik" -> 12
    [] k = "LIK" -> 13
    [] OTHER -> 14

\* the invoices of the set S as a sequence sorted by localeCompare of the keys
RECURSIVE sortInvoices(_, _)
sortInvoices(inv, S) ==
  IF S = {} THEN <<>>
  ELSE LET k == CHOOSE x \in S : \A y \in S : collationRank(x) <= collationRank(y)
       IN  <<inv[k]>> \o sortInvoices(inv, S \ {k})

\* the rounding loop and the sort at the end of buildInvoices
finishInvoices(inv) ==
  sortInvoices([k \in DOMAIN inv |-> roundInvoice(inv[k])], DOMAIN inv)

----------------------------------------------------------------------------
(* Inputs of the model *)

R(n, d) == Rat(n, d)

\* the cells of one employee row of the top table (toNum of each cell);
\* columns that are not named are blank
row(lik, sc, jv, mkt, misc) ==
  [c \in TopColSet |->
     CASE c = "LIK" -> lik [] c = "SC" -> sc [] c = "JV III" -> jv
       [] c = "Marketing" -> mkt [] OTHER -> misc]

TopAllocs ==
  { row(Zero, Zero, Zero, Zero, Zero),
    row(R(1, 2), R(50, 1), Zero, Zero, Zero),
    row(Zero, R(50, 1), Zero, Zero, Zero),
    row(R(1, 2), Zero, Zero, R(1, 2), Zero),
    row(R(1, 4), Zero, Zero, R(1, 2), Zero),
    row(Zero, R(50, 1), Zero, R(1, 2), Zero),
    row(R(1, 2), Zero, Zero, Zero, R(1, 4)),
    row(R(1, 2), Zero, R(1, 4), Zero, Zero) }

\* breakout tables of a sheet: PRS columns of SC, NI LLC and JV III, and the
\* Marketing breakdown
MktPool ==
  { [g \in MktKeys |-> IF g = "SC" THEN R(100, 1) ELSE Zero],
    [g \in MktKeys |-> IF g = "SC" THEN R(1, 2) ELSE R(25, 1)],
    [g \in MktKeys |-> Zero] }

TablePool ==
  { [scREC |-> rec, scNR |-> nr,
     niREC |-> [k \in NIProps |-> R(100, 1)], niNR |-> [k \in NIProps |-> R(1, 2)],
     jvPRS |-> [k \in JVProps |-> R(100, 1)], mktGroups |-> m] :
       rec \in {[k \in SCProps |-> IF k = "3610" THEN R(100, 1) ELSE Zero],
                [k \in SCProps |-> Zero]},
       nr \in {[k \in SCProps |-> R(50, 1)], [k \in SCProps |-> R(100, 1)],
               [k \in SCProps |-> Zero]},
       m \in MktPool }

\* a sheet without breakout tables (the simplified format)
NoTables ==
  [scREC |-> [k \in SCProps |-> Zero], scNR |-> [k \in SCProps |-> Zero],
   niREC |-> [k \in NIProps |-> Zero], niNR |-> [k \in NIProps |-> Zero],
   jvPRS |-> [k \in JVProps |-> Zero], mktGroups |-> [g \in MktKeys |-> Zero]]

\* the tables of a sheet whose Marketing goes to SC alone and whose SC
\* non-recoverable split is a single property
CascadeTables ==
  { [scREC |-> [k \in SCProps |-> IF k = "3610" THEN R(100, 1) ELSE Zero],
     scNR |-> [k \in SCProps |-> IF k = "3620" THEN sh ELSE Zero],
     niREC |-> [k \in NIProps |-> R(100, 1)], niNR |-> [k \in NIProps |-> R(100, 1)],
     jvPRS |-> [k \in JVProps |-> R(100, 1)],
     mktGroups |-> [g \in MktKeys |-> IF g = "SC" THEN One ELSE Zero]] :
       sh \in {One, R(100, 1)} }

nAnnLee == <<"A", "n", "n", " ", "L", "e", "e">>
nBoLee == <<"B", "o", " ", "L", "e", "e">>
nAlLee == <<"A", "l", " ", "L", "e", "e">>
nCyOrr == <<"C", "y", " ", "O", "r", "r">>

SheetNames == {nAnnLee}
AllocNames == {nAnnLee, nBoLee}
PayNames == {nAnnLee, nAlLee, nCyOrr}

\* formatted cells of the simplified table
SimpleCells ==
  { [kind |-> "blank", v |-> Zero],
    [kind |-> "num", v |-> R(10, 1)],
    [kind |-> "num", v |-> R(30, 1)],
    [kind |-> "num", v |-> R(1, 2)],
    [kind |-> "num", v |-> R(-1, 2)],
    [kind |-> "pct", v |-> R(25, 1)] }

\* allocation maps of the table given to buildInvoices: "9999" is no property
AllocKeys == {"2010", "4900", "9999"}
AllocEmployeePool ==
  { [name |-> nAnnLee, recoverable |-> FALSE,
     allocations |-> [k \in AllocKeys |-> IF k = "9999" THEN Zero ELSE R(1, 2)]],
    [name |-> nAnnLee, recoverable |-> TRUE,
     allocations |-> [k \in AllocKeys |-> IF k = "4900" THEN Zero ELSE R(50, 1)]],
    [name |-> nBoLee, recoverable |-> TRUE,
     allocations |-> [k \in AllocKeys |-> IF k = "4900" THEN One ELSE Zero]] }

PropertyLists ==
  { <<[key |-> "2010", label |-> "2010"], [key |-> "4900", label |-> "4900"]>>,
    <<[key |-> "2010", label |-> "2010"], [key |-> "4900", label |-> "4900"],
      [key |-> "2010", label |-> "LIK"]>>,
    <<>> }

AllocTables ==
  {[properties |-> ps, employees |-> es] :
     ps \in PropertyLists,
     es \in UNION {[1..n -> AllocEmployeePool] : n \in 0..MaxAllocEmployees}}

\* pay amounts of a payroll employee, in dollars
PayProfiles ==
  { [salaryAmt |-> R(1000, 1), overtimeAmt |-> Zero, holAmt |-> Zero, er401k |-> Zero],
    [salaryAmt |-> R(10001, 100), overtimeAmt |-> R(1001, 100), holAmt |-> R(2001, 100),
     er401k |-> R(1, 125)] }

payOf(n, p) ==
  [name |-> n, salaryAmt |-> p.salaryAmt, overtimeAmt |-> p.overtimeAmt,
   holAmt |-> p.holAmt, er401k |-> p.er401k]

PayrollEmployees == {payOf(n, p) : n \in PayNames, p \in PayProfiles}

\* the payrolls posted to the generate route together with a parsed workbook
RoutePayrolls ==
  LET ann == payOf(nAnnLee, [salaryAmt |-> R(1000, 1), overtimeAmt |-> Zero,
                             holAmt |-> Zero, er401k |-> Zero])
      cy == payOf(nCyOrr, [salaryAmt |-> R(10001, 100), overtimeAmt |-> R(1001, 100),
                           holAmt |-> Zero, er401k |-> Zero])
  IN  {<<>>, <<ann>>, <<cy, ann>>}

----------------------------------------------------------------------------
(* State *)

VARIABLES
  tables,           \* the breakout tables read from the sheet
  employees,        \* the employees pushed by the workbook parser
  simpleEmployees,  \* the employees pushed by the simplified-table parser
  pc,               \* "idle", or the position of buildInvoices: "loop", "done"
  allocation,       \* the allocation argument of buildInvoices
  invByKey,         \* the invoices by property key
  emp,              \* the payroll employee of the last loop iteration
  nEmp,             \* payroll employees processed
  out,              \* the returned invoices
  found,            \* the result of a findAlloc call made on its own
  raw,              \* the raw value given to a percentage normalizer
  pct,              \* the normalizer that ran and the value it returned
  calls,            \* the buildInvoices invocations that run side by side, or
                    \* the findAlloc calls of one run
  page,             \* the state of the Page component
  requests          \* the importPayroll and generateAll calls that await a reply

vars == <<tables, employees, simpleEmployees, pc, allocation, invByKey, emp, nEmp, out,
          found, raw, pct, calls, page, requests>>

\* the variables of the Page component
pageVars == <<page, requests>>

\* the variables of the operations that are run on their own
pureVars == <<found, raw, pct>>

\* null, for a state of the Page component
null == "null"

\* the Page component after its first render
NoPage == [payroll |-> null, invoices |-> <<>>, busy |-> null, error |-> null]

NoTable == [properties |-> <<>>, employees |-> <<>>]
NoEmp == [name |-> <<>>, salaryAmt |-> Zero, overtimeAmt |-> Zero, holAmt |-> Zero,
          er401k |-> Zero]

NotFound == [resolved |-> FALSE, rec |-> NoAlloc]
NoPct == [by |-> "", v |-> Zero]

\* nothing has run yet, whatever the inputs are
IdleCore ==
  /\ employees = <<>>
  /\ simpleEmployees = <<>>
  /\ pc = "idle"
  /\ invByKey = <<>>
  /\ emp = NoEmp
  /\ nEmp = 0
  /\ out = <<>>
  /\ found = NotFound
  /\ pct = NoPct
  /\ page = NoPage
  /\ requests = <<>>

Idle ==
  /\ IdleCore
  /\ allocation = NoTable
  /\ raw = Zero
  /\ calls = <<>>

\* a buildInvoices call on a table posted by the client
Init == tables = NoTables /\ Idle

\* a workbook with breakout tables, or one in the simplified format
InitParse == tables \in TablePool \cup CascadeTables \cup {NoTables} /\ Idle

\* a workbook whose parsed result is posted to buildInvoices
InitPipeline == tables \in CascadeTables /\ Idle

----------------------------------------------------------------------------
(* Actions *)

\* the employee pushed for the top-table row e; topAlloc, weights and parts
\* record the row, the weights before normalizeWeights and what each column added
parsedEmployee(t, e) ==
  [name |-> e.name, recoverable |-> e.recoverable, topAlloc |-> e.topAlloc,
   weights |-> expandWeights(t, e),
   parts |-> [i \in 1..Len(TopCols) |-> entryPart(t, e, i)],
   weightsByProperty |-> normalizeWeights(expandWeights(t, e))]

\* one iteration of "for (const e of employeesTop)" of the workbook parser
ParseRow ==
  /\ pc = "idle"
  /\ tables # NoTables
  /\ Len(employees) < MaxRows
  /\ \E n \in SheetNames, r \in BOOLEAN, ta \in TopAllocs :
       employees' = Append(employees,
          parsedEmployee(tables, [name |-> n, recoverable |-> r, topAlloc |-> ta]))
  /\ UNCHANGED <<pageVars, tables, simpleEmployees, pc, allocation, invByKey, emp, nEmp, out, pureVars, calls>>

\* one iteration of the row loop of parseSimpleAllocation
ParseSimpleRow ==
  /\ pc = "idle"
  /\ tables = NoTables
  /\ Len(simpleEmployees) < MaxRows
  /\ \E n \in SheetNames, r \in BOOLEAN, cells \in [SimpleCols -> SimpleCells] :
       simpleEmployees' = Append(simpleEmployees,
          [name |-> n, recoverable |-> r, raw |-> simpleTop(cells),
           top |-> normalizeTop(simpleTop(cells))])
  /\ UNCHANGED <<pageVars, tables, employees, pc, allocation, invByKey, emp, nEmp, out, pureVars, calls>>

\* the properties the workbook parser returns, sorted by label
parsedProperties ==
  LET keys == <<"1500", "0800", "5010", "2010", "MIDDLETOWN", "4010", "4900", "3610", "3620">>
  IN  [i \in 1..Len(keys) |-> [key |-> keys[i], label |-> propLabel(keys[i])]]

\* the parser's result as the allocation argument of buildInvoices (app/page
\* hands it over as it is); the engine's "allocations" of an employee is taken
\* to be the parser's "weightsByProperty"
parsedAllocation ==
  [properties |-> parsedProperties,
   employees |-> [i \in 1..Len(employees) |->
                    [name |-> employees[i].name, recoverable |-> employees[i].recoverable,
                     allocations |-> employees[i].weightsByProperty]]]

\* buildInvoices called with a table posted by the client, up to the loop
\* over the payroll employees
Call ==
  /\ pc = "idle"
  /\ \E alloc \in AllocTables :
       /\ allocation' = alloc
       /\ invByKey' = seedInvoices(alloc)
  /\ pc' = "loop"
  /\ UNCHANGED <<pageVars, tables, employees, simpleEmployees, emp, nEmp, out, pureVars, calls>>

\* the invoices by key after the loop over the first n payroll employees
RECURSIVE processPayroll(_, _, _)
processPayroll(alloc, payroll, n) ==
  IF n = 0 THEN seedInvoices(alloc)
  ELSE processEmployee(processPayroll(alloc, payroll, n - 1), alloc, payroll[n])

\* the generate route: buildInvoices(payroll, allocation) on the posted parser
\* result, as one step
Generate ==
  /\ pc = "idle"
  /\ employees # <<>>
  /\ \E payroll \in RoutePayrolls :
       LET inv == processPayroll(parsedAllocation, payroll, Len(payroll))
       IN  /\ invByKey' = [k \in DOMAIN inv |-> roundInvoice(inv[k])]
           /\ out' = finishInvoices(inv)
           /\ nEmp' = Len(payroll)
           /\ emp' = IF payroll = <<>> THEN NoEmp ELSE payroll[Len(payroll)]
  /\ allocation' = parsedAllocation
  /\ pc' = "done"
  /\ UNCHANGED <<pageVars, tables, employees, simpleEmployees, pureVars, calls>>

\* one iteration of "for (const emp of payroll.employees)"
ProcessEmployee ==
  /\ pc = "loop"
  /\ nEmp < MaxPayrollEmployees
  /\ \E e \in PayrollEmployees :
       /\ emp' = e
       /\ invByKey' = processEmployee(invByKey, allocation, e)
  /\ nEmp' = nEmp + 1
  /\ UNCHANGED <<pageVars, tables, employees, simpleEmployees, pc, allocation, out, pureVars, calls>>

\* the rounding loop, the sort and the return
Return ==
  /\ pc = "loop"
  /\ pc' = "done"
  /\ invByKey' = [k \in DOMAIN invByKey |-> roundInvoice(invByKey[k])]
  /\ out' = finishInvoices(invByKey)
  /\ UNCHANGED <<pageVars, tables, employees, simpleEmployees, allocation, emp, nEmp, pureVars, calls>>

Next == Call \/ ProcessEmployee \/ Return
NextParse == ParseRow \/ ParseSimpleRow
NextPipeline == ParseRow \/ Generate

Spec == Init /\ [][Next]_vars
SpecParse == InitParse /\ [][NextParse]_vars
SpecPipeline == InitPipeline /\ [][NextPipeline]_vars

----------------------------------------------------------------------------
(* findAlloc on its own (SpecResolve) *)

nLeeAnn == <<"L", "e", "e", ",", " ", "A", "n", "n">>
nCyLee == <<"C", "y", " ", "L", "e", "e">>
nAnnLeeLoud == <<"A", "N", "N", " ", " ", "L", "E", "E", ".">>

\* the allocation employees of the tables the resolver is tried on
ResolveEmployees ==
  AllocEmployeePool \cup
  { [name |-> nLeeAnn, recoverable |-> FALSE,
     allocations |-> [k \in AllocKeys |-> IF k = "9999" THEN Zero ELSE R(1, 2)]] }

ResolveTables ==
  {[properties |-> <<[key |-> "2010", label |-> "2010"], [key |-> "4900", label |-> "4900"]>>,
    employees |-> es] :
     es \in UNION {[1..n -> ResolveEmployees] : n \in 0..MaxAllocEmployees}}

\* the payroll names the resolver is asked for
ResolveNames == {nAnnLee, nLeeAnn, nAnnLeeLoud, nAlLee, nCyLee, nCyOrr}

InitResolve ==
  /\ tables = NoTables
  /\ IdleCore
  /\ allocation \in ResolveTables
  /\ raw = Zero
  /\ calls = <<>>

\* findAlloc(empName) on the index of the table, for the next payroll employee
\* of the run; calls lists the names asked for so far and what they resolved to
Resolve ==
  /\ Len(calls) < MaxPayrollEmployees
  /\ \E n \in ResolveNames :
       /\ emp' = [NoEmp EXCEPT !.name = n]
       /\ found' = [resolved |-> TRUE, rec |-> findAlloc(allocation, n)]
       /\ calls' = Append(calls, [name |-> n, rec |-> findAlloc(allocation, n)])
  /\ UNCHANGED <<pageVars, tables, employees, simpleEmployees, pc, allocation, invByKey, nEmp, out,
                 raw, pct>>

NextResolve == Resolve
SpecResolve == InitResolve /\ [][NextResolve]_vars

----------------------------------------------------------------------------
(* Properties of the workbook parsers (SpecParse) *)

colIndex(c) == CHOOSE i \in 1..Len(TopCols) : TopCols[i] = c

\* the SC split the recoverable flag of the parsed employee r selects
selectedSC(r) == IF r.recoverable THEN tables.scREC ELSE tables.scNR

\* C2: the weights the expansion gives an employee sum to no more than the
\* employee's normalized top-table percents.  applyDist uses every PRS share
\* as a percent of its own, so shares above 100% in all exceed it.
C2_FanOutWithinPercent ==
  \A i \in DOMAIN employees :
    RLe(RSum(employees[i].weights, PropKeys),
        RSum([c \in TopColSet |-> normalizePct(employees[i].topAlloc[c])], TopColSet))

\* what the Marketing entry of percent p adds to property k through the
\* non-recoverable tables alone
marketingNR(p, k) ==
  LET through(g, dist) ==
        IF RLt(Zero, RMul(p, normalizePct(tables.mktGroups[g])))
           /\ k \in DOMAIN dist /\ RLt(Zero, normalizePct(dist[k]))
        THEN RMul(RMul(p, normalizePct(tables.mktGroups[g])), normalizePct(dist[k]))
        ELSE Zero
  IN  RAdd(RAdd(through("SC", tables.scNR), through("NI LLC", tables.niNR)),
           through("JV III", tables.jvPRS))

C6_SplitDividedByItsSum ==
  \A i \in DOMAIN employees :
    LET r == employees[i]
        p == normalizePct(r.topAlloc["SC"])
        sum == RSum(selectedSC(r), SCProps)
        part == r.parts[colIndex("SC")]
    IN  (RLt(Zero, p) /\ RLt(Zero, sum)) =>
          /\ \A k \in SCProps : part[k] = RMul(p, RDiv(selectedSC(r)[k], sum))
          /\ RSum(part, PropKeys) = p

\* the top-table row of the parsed employee r without its SC entry
withoutSC(r) ==
  [name |-> r.name, recoverable |-> r.recoverable,
   topAlloc |-> [r.topAlloc EXCEPT !["SC"] = Zero]]

C8_SplitMapNormalized ==
  \A i \in DOMAIN simpleEmployees :
    LET r == simpleEmployees[i]
        sum == RSum(r.raw, SimpleCols)
    IN  /\ RLt(Zero, sum) =>
             /\ \A k \in SimpleCols : r.top[k] = RDiv(r.raw[k], sum)
             /\ RSum(r.top, SimpleCols) = One
        /\ sum = Zero => \A k \in SimpleCols : r.top[k] = Zero

----------------------------------------------------------------------------
(* Properties of buildInvoices (Spec) *)

\* the amounts of the contributions of a breakdown list
amounts(list) == [j \in 1..Len(list) |-> list[j].amount]

\* C1: every returned invoice has total equal to the sum of its six rounded
\* category fields.  The code also adds each "total" line to total, which the
\* category lines have already increased, so this is violated.
C1_TotalIsSumOfFields ==
  pc = "done" => \A i \in DOMAIN out : out[i].total = RSum(out[i], CategorySet)

\* C3: for every returned invoice and every line category, the amounts of the
\* category's breakdown list sum to the invoice's field within one cent.
C3_BreakdownSumsToField ==
  pc = "done" =>
    \A i \in DOMAIN out : \A l \in CategorySet :
      RLe(RAbs(RSub(RSumSeq(amounts(out[i].breakdown[l])), out[i][l])), R(1, 100))

\* C3 witness: a returned invoice with a category of two contributions whose
\* sum the rounding has changed
C3_Witness ==
  /\ pc = "done"
  /\ \E i \in DOMAIN out : \E l \in CategorySet :
       /\ Len(out[i].breakdown[l]) >= 2
       /\ RSumSeq(amounts(out[i].breakdown[l])) # out[i][l]

\* the name n has no exact normalized match and no last-name candidate among
\* the allocation employees of the call
Unmatched(n) ==
  \A i \in 1..Len(allocation.employees) :
    /\ normName(allocation.employees[i].name) # normName(n)
    /\ lastName(allocation.employees[i].name) # lastName(n)

\* C9: the loop iteration of a payroll employee without a match leaves every
\* field and breakdown of every invoice as it was, and the loop goes on.
C9_UnmatchedAddsNothing ==
  [][(nEmp' = nEmp + 1 /\ Unmatched(emp'.name)) => (invByKey' = invByKey /\ pc' = "loop")]_vars

\* C9 witness: the second payroll employee was unmatched, after a first one
\* that put amounts on an invoice of a table with employees
C9_Witness ==
  /\ pc = "loop"
  /\ nEmp = 2
  /\ allocation.employees # <<>>
  /\ Unmatched(emp.name)
  /\ emp.salaryAmt # Zero
  /\ \E k \in DOMAIN invByKey : invByKey[k].total # Zero

\* the entries of the allocation map a whose key has no invoice
unknownKeys(a) ==
  {k \in DOMAIN a.allocations : k \notin DOMAIN invByKey /\ RLt(Zero, a.allocations[k])}

\* C10: when the allocation map of the matched employee holds an entry whose
\* key is no property of the call, the iteration creates no invoice for it and
\* the invoices are those the entries with known keys produce alone.
C10_UnknownTargetIgnored ==
  [][nEmp' = nEmp + 1 =>
       LET a == findAlloc(allocation, emp'.name)
       IN  (~ a.none /\ unknownKeys(a) # {}) =>
             /\ DOMAIN invByKey' = DOMAIN invByKey
             /\ invByKey' = processEntries(invByKey, emp', a,
                                           DOMAIN a.allocations \ unknownKeys(a))]_vars

\* C10 witness: the last payroll employee matched a map with an unknown key
\* and a known one, and the known one received its salary share
C10_Witness ==
  /\ pc = "loop"
  /\ nEmp >= 1
  /\ LET a == findAlloc(allocation, emp.name)
     IN  /\ ~ a.none
         /\ unknownKeys(a) # {}
         /\ \E k \in DOMAIN invByKey :
              /\ RLt(Zero, a.allocations[k])
              /\ \E l \in CategorySet : \E j \in 1..Len(invByKey[k].breakdown[l]) :
                   invByKey[k].breakdown[l][j].employee = emp.name

----------------------------------------------------------------------------
(* Properties of the generate route on a parsed workbook (SpecPipeline) *)

\* the parsed row that byFull holds for the name n: the last one with the name
matchedRow(n) ==
  employees[CHOOSE i \in DOMAIN employees :
              /\ normName(employees[i].name) = normName(n)
              /\ \A j \in DOMAIN employees :
                   j > i => normName(employees[j].name) # normName(n)]

\* the contributions of employee n on line l of the returned invoice of key k
contributions(k, l, n) ==
  LET o == CHOOSE o \in {out[i] : i \in DOMAIN out} : o.propertyKey = k
      list == o.breakdown[l]
  IN  {list[j] : j \in {j \in 1..Len(list) : list[j].employee = n}}

----------------------------------------------------------------------------
(* Properties of findAlloc (SpecResolve) *)

\* the spellings of the name of one person
AnnSpellings == {nAnnLee, nLeeAnn}

\* the rows of the table that carry a spelling of that person's name
annRows == {i \in 1..Len(allocation.employees) : allocation.employees[i].name \in AnnSpellings}

\* C11: a payroll name in one of the spellings "First Last" and "Last, First"
\* resolves to the only allocation row of that person, written in the other
\* spelling, whatever other rows the table has.  findAlloc looks "Lee, Ann" up
\* under the last token of the normalized name ("ann"), so it does not.
C11_LastFirstResolves ==
  (found.resolved /\ emp.name \in AnnSpellings) =>
    \A i \in annRows :
      (annRows = {i} /\ allocation.employees[i].name # emp.name) =>
        found.rec = entryOf(allocation.employees[i])

\* the rows of the table with the last-name key of the name n
lastNameRows(n) ==
  {i \in 1..Len(allocation.employees) : lastName(allocation.employees[i].name) = lastName(n)}

\* the number of non-zero entries of an allocation map
entryCount(a) == Cardinality({k \in DOMAIN a : a[k] # Zero})

\* C12: with several rows under the last-name key, no exact match and no row
\* with the first initial, the result is the row with the most non-zero
\* entries.  findAlloc returns candidates[0], the first such row of the sheet.
C12_MostEntriesWins ==
  (/\ found.resolved
   /\ \A i \in 1..Len(allocation.employees) :
        normName(allocation.employees[i].name) # normName(emp.name)
   /\ Cardinality(lastNameRows(emp.name)) >= 2
   /\ \A i \in lastNameRows(emp.name) :
        firstInitial(allocation.employees[i].name) # firstInitial(emp.name)) =>
    \A i \in lastNameRows(emp.name) :
      (\A j \in lastNameRows(emp.name) \ {i} :
         entryCount(allocation.employees[j].allocations)
           < entryCount(allocation.employees[i].allocations)) =>
        found.rec = entryOf(allocation.employees[i])

----------------------------------------------------------------------------
(* The percentage normalizers on their own (SpecNormalize) *)

NaN == [n |-> 0, d |-> 0]
Infinity == [n |-> 1, d |-> 0]
NegInfinity == [n |-> -1, d |-> 0]

\* a cell as the normalizers see it: null, a number, a text that ends with "%"
\* (v is what parseFloat reads before the sign), any other text (v is what
\* Number reads, NaN when it is no number), or a blank text
cell(kind, v) == [kind |-> kind, v |-> v]

\* pctFrom(v) of the allocation sheet parser
pctFrom(c) ==
  CASE c.kind = "null" -> Zero
    [] c.kind = "number" /\ isFinite(c.v) ->
         IF RLt([n |-> 3, d |-> 2], c.v) THEN RDiv(c.v, Hundred) ELSE c.v
    [] c.kind = "blank" -> Zero
    [] c.kind = "percent" -> IF isFinite(c.v) THEN RDiv(c.v, Hundred) ELSE Zero
    [] OTHER ->
         \* a text, or a non-finite number read back from its text
         IF ~ isFinite(c.v) THEN Zero
         ELSE IF RLt([n |-> 3, d |-> 2], c.v) THEN RDiv(c.v, Hundred) ELSE c.v

\* pctFromCell(v) of the allocation workbook parser
pctFromCell(c) ==
  CASE c.kind = "null" -> Zero
    [] c.kind = "number" ->
         IF ~ isFinite(c.v) \/ RLe(c.v, Zero) THEN Zero
         ELSE IF RLt([n |-> 3, d |-> 2], c.v) THEN RDiv(c.v, Hundred) ELSE c.v
    [] c.kind = "blank" -> Zero
    [] c.kind = "percent" -> IF isFinite(c.v) THEN RDiv(c.v, Hundred) ELSE Zero
    [] OTHER ->
         IF ~ isFinite(c.v) \/ RLe(c.v, Zero) THEN Zero
         ELSE IF RLt([n |-> 3, d |-> 2], c.v) THEN RDiv(c.v, Hundred) ELSE c.v

\* the value a parser stores for a cell
parsedBy(parser, c) == IF parser = "pctFrom" THEN pctFrom(c) ELSE pctFromCell(c)

RawNumerators == {-250, -150, -100, -50, -1, 0, 1, 50, 100, 120, 150, 151, 250}
FiniteNumbers == {R(n, d) : n \in RawNumerators, d \in {1, 100}}
RawNumbers == FiniteNumbers \cup {NaN, Infinity, NegInfinity}
RawCells ==
  {cell("number", v) : v \in RawNumbers}
    \cup {cell("percent", v) : v \in FiniteNumbers \cup {NaN}}
    \cup {cell("text", v) : v \in FiniteNumbers \cup {NaN}}
    \cup {cell("null", NaN), cell("blank", NaN)}

InitNormalize ==
  /\ tables = NoTables
  /\ IdleCore
  /\ allocation = NoTable
  /\ calls = <<>>
  /\ raw \in RawCells

\* pickAllocPct(rawPct) on a number of an allocation map
NormalizePick ==
  /\ pct = NoPct
  /\ raw.kind = "number"
  /\ pct' = [by |-> "pickAllocPct", v |-> pickAllocPct(raw.v)]
  /\ UNCHANGED <<pageVars, tables, employees, simpleEmployees, pc, allocation, invByKey, emp, nEmp,
                 out, found, raw, calls>>

\* pctFrom(row[col]) on a cell of the allocation sheet
NormalizeFrom ==
  /\ pct = NoPct
  /\ pct' = [by |-> "pctFrom", v |-> pctFrom(raw)]
  /\ UNCHANGED <<pageVars, tables, employees, simpleEmployees, pc, allocation, invByKey, emp, nEmp,
                 out, found, raw, calls>>

\* the allocation record and the payroll employee of one entry of the loop
EntryRecord(rawPct) ==
  [name |-> nAnnLee, recoverable |-> FALSE, allocations |-> [k \in {"2010"} |-> rawPct],
   none |-> FALSE]
EntryEmployee ==
  payOf(nAnnLee, [salaryAmt |-> R(1000, 1), overtimeAmt |-> Zero, holAmt |-> Zero,
                  er401k |-> Zero])
EntrySeed == [k \in {"2010"} |-> newInvoice([key |-> k, label |-> k])]

\* one pass of "for (const [propKey, rawPct] of Object.entries(a.allocations))"
\* for the entry ("2010", raw) on freshly seeded invoices
NormalizeEntry ==
  /\ pct = NoPct
  /\ raw.kind = "number"
  /\ pct' = [by |-> "entry", v |-> pickAllocPct(raw.v)]
  /\ emp' = EntryEmployee
  /\ invByKey' = processEntry(EntrySeed, EntryEmployee, EntryRecord(raw.v), "2010")
  /\ UNCHANGED <<pageVars, tables, employees, simpleEmployees, pc, allocation, nEmp, out, found, raw,
                 calls>>

\* a cell on its way through the pipeline: the parser stores p for the cell
\* when p > 0, and the engine applies pickAllocPct to the stored value
NormalizeTwice ==
  /\ pct = NoPct
  /\ \E parser \in {"pctFrom", "pctFromCell"} :
       /\ RLt(Zero, parsedBy(parser, raw))
       /\ pct' = [by |-> parser \o "+pickAllocPct", v |-> pickAllocPct(parsedBy(parser, raw))]
  /\ UNCHANGED <<pageVars, tables, employees, simpleEmployees, pc, allocation, invByKey, emp, nEmp,
                 out, found, raw, calls>>

NextNormalize == NormalizePick \/ NormalizeFrom \/ NormalizeEntry \/ NormalizeTwice
SpecNormalize == InitNormalize /\ [][NextNormalize]_vars

\* the fraction the threshold rule assigns to the raw number r
thresholdRule(r) ==
  IF r.d = 0 THEN Zero
  ELSE IF 2 * r.n > 3 * r.d THEN Rat(r.n, 100 * r.d)
  ELSE IF r.n > 0 THEN r
  ELSE Zero

\* C23: pickAllocPct returns r / 100 for r > 1.5, r for 0 < r <= 1.5 and 0 for
\* r <= 0 or r not finite; the loop skips an entry whose fraction is 0, and
\* any other entry is recorded with that fraction.
C23_ThresholdRule ==
  /\ pct.by = "pickAllocPct" => pct.v = thresholdRule(raw.v)
  /\ pct.by = "entry" =>
       IF thresholdRule(raw.v) = Zero THEN invByKey = EntrySeed
       ELSE /\ Len(invByKey["2010"].breakdown["salaryNR"]) = 1
            /\ invByKey["2010"].breakdown["salaryNR"][1].allocPct = thresholdRule(raw.v)
            /\ invByKey["2010"].salaryNR = RMul(R(1000, 1), thresholdRule(raw.v))

\* C23 witness: the entry of 250 was taken for a percent and recorded with the
\* fraction 2.5
C23_Witness ==
  /\ pct.by = "entry"
  /\ raw.v = R(250, 1)
  /\ invByKey["2010"].breakdown["salaryNR"][1].allocPct = R(5, 2)

\* C26: the engine's pickAllocPct returns the value a parser stored for a cell
\* as it is.  A cell of 250 is stored as 2.5, which is above 1.5, and
\* pickAllocPct divides it by 100 once more.
C26_NormalizedOnce ==
  /\ pct.by = "pctFrom+pickAllocPct" => pct.v = pctFrom(raw)
  /\ pct.by = "pctFromCell+pickAllocPct" => pct.v = pctFromCell(raw)

\* C17: whatever the raw input, the value a percentage normalizer returns lies
\* in [0, 1].  pickAllocPct keeps 1.2 and returns 2.5 for 250; pctFrom also
\* lets negative numbers through.
C17_NormalizedInUnitRange ==
  pct # NoPct => isFinite(pct.v) /\ RLe(Zero, pct.v) /\ RLe(pct.v, One)

----------------------------------------------------------------------------
(* Two invocations of buildInvoices whose steps interleave (SpecTwo) *)

Invocations == {1, 2}

\* an invocation that has not been called: its arguments and its locals
\* (invByKey, the loop position n, out)
NoCall ==
  [pc |-> "idle", shared |-> FALSE, allocation |-> NoTable, payroll |-> <<>>,
   invByKey |-> <<>>, n |-> 0, out |-> <<>>]

TwoProperties == <<[key |-> "2010", label |-> "2010"], [key |-> "4900", label |-> "4900"]>>

\* the allocation table that both invocations may be handed
SharedTables ==
  {[properties |-> TwoProperties, employees |-> es] :
     es \in {<<e>> : e \in AllocEmployeePool}}

\* an allocation table that one invocation has to itself
OwnTable ==
  [properties |-> TwoProperties,
   employees |-> <<CHOOSE e \in AllocEmployeePool : e.name = nBoLee,
                   CHOOSE e \in AllocEmployeePool : e.name = nAnnLee /\ e.recoverable>>]

TwoPayrolls ==
  LET ann == payOf(nAnnLee, [salaryAmt |-> R(1000, 1), overtimeAmt |-> Zero,
                             holAmt |-> Zero, er401k |-> Zero])
      al == payOf(nAlLee, [salaryAmt |-> R(10001, 100), overtimeAmt |-> R(1001, 100),
                           holAmt |-> R(2001, 100), er401k |-> Zero])
  IN  {<<ann>>, <<ann, al>>, <<al, ann>>}

\* the allocation argument of invocation i
tableOf(cs, alloc, i) == IF cs[i].shared THEN alloc ELSE cs[i].allocation

InitTwo ==
  /\ tables = NoTables
  /\ IdleCore
  /\ allocation \in SharedTables
  /\ raw = Zero
  /\ calls = [i \in Invocations |-> NoCall]

\* invocation i enters buildInvoices and seeds its own invByKey
callOf(cs, alloc, i, shared, payroll) ==
  LET t == IF shared THEN alloc ELSE OwnTable
  IN  [cs EXCEPT ![i] = [pc |-> "loop", shared |-> shared,
                         allocation |-> IF shared THEN NoTable ELSE OwnTable,
                         payroll |-> payroll, invByKey |-> seedInvoices(t),
                         n |-> 0, out |-> <<>>]]

\* one payroll iteration with a plausible bug: invByKey is a module-level
\* accumulator, the one invocation 1 created
stepShared(cs, alloc, i) ==
  [cs EXCEPT ![i].n = @ + 1,
             ![1].invByKey = processEmployee(@, tableOf(cs, alloc, i),
                                             cs[i].payroll[cs[i].n + 1])]

\* one iteration of "for (const emp of payroll.employees)" in invocation i: it
\* reads the allocation table and writes the invByKey of its own call
stepOf(cs, alloc, i) ==
  [cs EXCEPT ![i].n = @ + 1,
             ![i].invByKey = processEmployee(@, tableOf(cs, alloc, i),
                                             cs[i].payroll[cs[i].n + 1])]

\* the rounding loop, the sort and the return of invocation i
returnOf(cs, i) ==
  [cs EXCEPT ![i].pc = "done",
             ![i].invByKey = [k \in DOMAIN @ |-> roundInvoice(@[k])],
             ![i].out = finishInvoices(cs[i].invByKey)]

CallTwo ==
  /\ \E i \in Invocations :
       /\ calls[i].pc = "idle"
       /\ \E shared \in BOOLEAN, payroll \in TwoPayrolls :
            calls' = callOf(calls, allocation, i, shared, payroll)
  /\ UNCHANGED <<pageVars, tables, employees, simpleEmployees, pc, allocation, invByKey, emp, nEmp,
                 out, pureVars>>

StepTwo ==
  /\ \E i \in Invocations :
       /\ calls[i].pc = "loop"
       /\ calls[i].n < Len(calls[i].payroll)
       /\ calls' = stepOf(calls, allocation, i)
  /\ UNCHANGED <<pageVars, tables, employees, simpleEmployees, pc, allocation, invByKey, emp, nEmp,
                 out, pureVars>>

ReturnTwo ==
  /\ \E i \in Invocations :
       /\ calls[i].pc = "loop"
       /\ calls[i].n = Len(calls[i].payroll)
       /\ calls' = returnOf(calls, i)
  /\ UNCHANGED <<pageVars, tables, employees, simpleEmployees, pc, allocation, invByKey, emp, nEmp,
                 out, pureVars>>

NextTwo == CallTwo \/ StepTwo \/ ReturnTwo
SpecTwo == InitTwo /\ [][NextTwo]_vars

\* what invocation i holds when it runs alone on its arguments up to its
\* present position
aloneOf(cs, alloc, i) ==
  LET inv == processPayroll(tableOf(cs, alloc, i), cs[i].payroll, cs[i].n)
  IN  CASE cs[i].pc = "loop" -> cs[i].invByKey = inv /\ cs[i].out = <<>>
        [] cs[i].pc = "done" -> cs[i].out = finishInvoices(inv)
        [] OTHER -> cs[i] = NoCall

\* C19: however the steps of two invocations interleave, each holds at every
\* step, and returns, what it would when run alone on its arguments, and no
\* step changes the allocation table or the arguments of a running invocation.
C19_InvocationsAreIsolated ==
  [][/\ allocation' = allocation
     /\ \A i \in Invocations :
          /\ aloneOf(calls', allocation', i)
          /\ calls[i].pc # "idle" =>
               /\ calls'[i].payroll = calls[i].payroll
               /\ calls'[i].shared = calls[i].shared
               /\ calls'[i].allocation = calls[i].allocation]_vars

\* C19 witness: both invocations are inside their loops on the same allocation
\* table, each past its first employee, with different payrolls and different
\* accumulators
C19_Witness ==
  /\ \A i \in Invocations : calls[i].pc = "loop" /\ calls[i].shared /\ calls[i].n = 1
  /\ calls[1].payroll # calls[2].payroll
  /\ calls[1].invByKey # calls[2].invByKey
  /\ \A i \in Invocations : calls[i].invByKey # seedInvoices(allocation)

----------------------------------------------------------------------------
(* The order of the returned invoices (SpecSort) *)

\* property keys as a sheet header may spell them
SortKeys == {"2010", "4900", "a", "B", "lik", "LIK"}

\* the keys of the set S as a property list
RECURSIVE propertyList(_)
propertyList(S) ==
  IF S = {} THEN <<>>
  ELSE LET k == CHOOSE x \in S : \A y \in S : collationRank(y) <= collationRank(x)
       IN  <<[key |-> k, label |-> k]>> \o propertyList(S \ {k})

SortTables == {[properties |-> propertyList(S), employees |-> <<>>] : S \in SUBSET SortKeys}

InitSort ==
  /\ tables = NoTables
  /\ IdleCore
  /\ allocation \in SortTables
  /\ raw = Zero
  /\ calls = <<>>

\* buildInvoices(payroll, allocation) for a payroll without employees: the
\* seeding, the rounding loop, out.sort and the return
BuildEmpty ==
  /\ pc = "idle"
  /\ pc' = "done"
  /\ invByKey' = [k \in DOMAIN seedInvoices(allocation) |->
                    roundInvoice(seedInvoices(allocation)[k])]
  /\ out' = finishInvoices(processPayroll(allocation, <<>>, 0))
  /\ UNCHANGED <<pageVars, tables, employees, simpleEmployees, allocation, emp, nEmp, pureVars, calls>>

NextSort == BuildEmpty
SpecSort == InitSort /\ [][NextSort]_vars

\* the UTF-16 code units of a key
codeUnits(k) ==
  CASE k = "2010" -> <<50, 48, 49, 48>>
    [] k = "4900" -> <<52, 57, 48, 48>>
    [] k = "a" -> <<97>>
    [] k = "B" -> <<66>>
    [] k = "lik" -> <<108, 105, 107>>
    [] OTHER -> <<76, 73, 75>>

\* s <= t in the order of the code units, a prefix before its extensions
RECURSIVE ordinalLe(_, _)
ordinalLe(s, t) ==
  IF s = <<>> THEN TRUE
  ELSE IF t = <<>> THEN FALSE
  ELSE IF Head(s) # Head(t) THEN Head(s) < Head(t)
  ELSE ordinalLe(Tail(s), Tail(t))

\* C22: the returned invoices are in ascending ordinal order of their keys.
\* out.sort compares with localeCompare, which puts "a" before "B" and "lik"
\* before "LIK".
C22_OrdinalKeyOrder ==
  pc = "done" =>
    \A i \in 1..(Len(out) - 1) :
      ordinalLe(codeUnits(out[i].propertyKey), codeUnits(out[i + 1].propertyKey))

\* the rows of the table with the normalized full name of the name n
fullNameRows(n) ==
  {i \in 1..Len(allocation.employees) : normName(allocation.employees[i].name) = normName(n)}

\* C24: when rows carry the normalized full name of the payroll name, findAlloc
\* returns one of them whatever other rows share the last name; otherwise,
\* when one row alone shares the last-name key, it returns that row whatever
\* its first name.
C24_ExactThenSingleLastName ==
  found.resolved =>
    /\ fullNameRows(emp.name) # {} =>
         \E i \in fullNameRows(emp.name) : found.rec = entryOf(allocation.employees[i])
    /\ (fullNameRows(emp.name) = {} /\ Cardinality(lastNameRows(emp.name)) = 1) =>
         \A i \in lastNameRows(emp.name) : found.rec = entryOf(allocation.employees[i])

\* C24 witness: "Cy Lee" was resolved to the only Lee of the table, Bo Lee
C24_Witness ==
  /\ found.resolved
  /\ emp.name = nCyLee
  /\ Len(allocation.employees) = 2
  /\ Cardinality(lastNameRows(emp.name)) = 1
  /\ found.rec.name = nBoLee

\* C28 as stated: two payroll employees of one run with different normalized
\* full names never resolve to the same allocation record.  The last-name
\* fallback gives "Cy Lee" the record of "Ann Lee".
C28_DifferentNamesDifferentRecords ==
  \A i, j \in DOMAIN calls :
    (/\ normName(calls[i].name) # normName(calls[j].name)
     /\ ~ calls[i].rec.none
     /\ ~ calls[j].rec.none) => calls[i].rec # calls[j].rec

\* C28 amended: two payroll employees of one run whose names have different
\* last-name keys never resolve to the same allocation record.
C28_DifferentLastNamesDifferentRecords ==
  \A i, j \in DOMAIN calls :
    (/\ lastName(calls[i].name) # lastName(calls[j].name)
     /\ ~ calls[i].rec.none
     /\ ~ calls[j].rec.none) => calls[i].rec # calls[j].rec

\* C28 witness: two payroll names with different last-name keys, each resolved
\* to a record
C28_Witness ==
  /\ Len(calls) = 2
  /\ lastName(calls[1].name) # lastName(calls[2].name)
  /\ ~ calls[1].rec.none
  /\ ~ calls[2].rec.none
  /\ calls[1].rec # calls[2].rec

\* C29: when several rows carry the normalized full name of the payroll name,
\* findAlloc returns the last of them in sheet order, with its flag and its
\* allocations.
C29_LaterRowWins ==
  (found.resolved /\ Cardinality(fullNameRows(emp.name)) >= 2) =>
    \E i \in fullNameRows(emp.name) :
      /\ \A j \in fullNameRows(emp.name) : j <= i
      /\ found.rec.recoverable = allocation.employees[i].recoverable
      /\ found.rec.allocations = allocation.employees[i].allocations

\* C29 witness: two rows "Ann Lee" with different flags and allocations, and
\* the payroll name resolved to the second
C29_Witness ==
  /\ found.resolved
  /\ Len(allocation.employees) = 2
  /\ fullNameRows(emp.name) = {1, 2}
  /\ allocation.employees[1].recoverable # allocation.employees[2].recoverable
  /\ allocation.employees[1].allocations # allocation.employees[2].allocations
  /\ found.rec = entryOf(allocation.employees[2])

----------------------------------------------------------------------------
(* The Page component: importPayroll and generateAll (SpecPage) *)

\* the calls of importPayroll and generateAll that may await a reply at once
MaxRequests == 3

\* the files the user picks; the payroll parsed from a file is named by it
Files == {"january.xlsx", "february.xlsx"}

\* the sequence s without its i-th element
without(s, i) == [j \in 1..(Len(s) - 1) |-> IF j < i THEN s[j] ELSE s[j + 1]]

InitPage ==
  /\ tables = NoTables
  /\ Idle

\* onChange of the file input (never disabled): importPayroll(f) up to its
\* first await
ImportPayroll ==
  /\ Len(requests) < MaxRequests
  /\ \E f \in Files :
       requests' = Append(requests, [call |-> "importPayroll", file |-> f])
  /\ page' = [page EXCEPT !.error = null, !.busy = "Parsing Payroll Register"]
  /\ UNCHANGED <<tables, employees, simpleEmployees, pc, allocation, invByKey, emp, nEmp,
                 out, pureVars, calls>>

\* the reply to an importPayroll call is good: the rest of the try block and
\* the finally block
ImportResolved ==
  /\ \E i \in DOMAIN requests :
       /\ requests[i].call = "importPayroll"
       /\ page' = [page EXCEPT !.payroll = requests[i].file,
                               !.invoices = <<requests[i].file>>,
                               !.busy = null]
       /\ requests' = without(requests, i)
  /\ UNCHANGED <<tables, employees, simpleEmployees, pc, allocation, invByKey, emp, nEmp,
                 out, pureVars, calls>>

\* reading the file, the fetch or the reply of an importPayroll call fails:
\* the catch block and the finally block
ImportRejected ==
  /\ \E i \in DOMAIN requests :
       /\ requests[i].call = "importPayroll"
       /\ requests' = without(requests, i)
  /\ page' = [page EXCEPT !.error = "Failed to parse payroll file", !.payroll = null,
                          !.invoices = <<>>, !.busy = null]
  /\ UNCHANGED <<tables, employees, simpleEmployees, pc, allocation, invByKey, emp, nEmp,
                 out, pureVars, calls>>

\* onClick of "Generate All PDFs", disabled when !payroll || !!busy:
\* generateAll() up to its first await
GenerateAll ==
  /\ Len(requests) < MaxRequests
  /\ page.payroll # null
  /\ page.busy = null
  /\ requests' = Append(requests, [call |-> "generateAll", file |-> page.payroll])
  /\ page' = [page EXCEPT !.error = null, !.busy = "Generating PDFs"]
  /\ UNCHANGED <<tables, employees, simpleEmployees, pc, allocation, invByKey, emp, nEmp,
                 out, pureVars, calls>>

\* the reply to a generateAll call is good: the download and the finally block
GenerateResolved ==
  /\ \E i \in DOMAIN requests :
       /\ requests[i].call = "generateAll"
       /\ requests' = without(requests, i)
  /\ page' = [page EXCEPT !.busy = null]
  /\ UNCHANGED <<tables, employees, simpleEmployees, pc, allocation, invByKey, emp, nEmp,
                 out, pureVars, calls>>

\* a generateAll call fails: the catch block and the finally block
GenerateRejected ==
  /\ \E i \in DOMAIN requests :
       /\ requests[i].call = "generateAll"
       /\ requests' = without(requests, i)
  /\ page' = [page EXCEPT !.error = "Failed to generate PDFs", !.busy = null]
  /\ UNCHANGED <<tables, employees, simpleEmployees, pc, allocation, invByKey, emp, nEmp,
                 out, pureVars, calls>>

NextPage ==
  \/ ImportPayroll \/ ImportResolved \/ ImportRejected
  \/ GenerateAll \/ GenerateResolved \/ GenerateRejected
SpecPage == InitPage /\ [][NextPage]_vars

\* the "Generate All PDFs" button is disabled
disabled == page.payroll = null \/ page.busy # null

\* C30: while a call of importPayroll or generateAll awaits its reply, busy is
\* not null and the button is disabled.  The finally block of the call that
\* ends first sets busy to null while the other still waits.
C30_BusyWhileInFlight ==
  requests # <<>> => page.busy # null /\ disabled

----------------------------------------------------------------------------
(* Further properties of buildInvoices (Spec) *)

\* the pay of employee e that belongs on line l of an invoice, for the
\* allocation record a
lineBase(e, a, l) ==
  CASE l = "salaryREC" -> IF a.recoverable THEN e.salaryAmt ELSE Zero
    [] l = "salaryNR" -> IF a.recoverable THEN Zero ELSE e.salaryAmt
    [] l = "holREC" -> IF a.recoverable THEN e.holAmt ELSE Zero
    [] l = "holNR" -> IF a.recoverable THEN Zero ELSE e.holAmt
    [] l = "overtime" -> e.overtimeAmt
    [] OTHER -> e.er401k

\* the breakdown list of line l of invoice k after the iteration of employee
\* e with record a, when amounts below the threshold leave no Contribution
listAfter(list, e, a, k, l, threshold) ==
  LET p == IF k \in DOMAIN a.allocations THEN pickAllocPct(a.allocations[k]) ELSE Zero
      amount == RMul(lineBase(e, a, l), p)
  IN  IF RLt(RAbs(amount), threshold) THEN list
      ELSE Append(list, [employee |-> e.name, amount |-> amount, allocPct |-> p,
                         baseAmount |-> lineBase(e, a, l)])

\* C13: the iteration of a matched employee puts salary and holiday pay on
\* salaryREC/holREC when the record is recoverable and on salaryNR/holNR
\* otherwise, never on both, and overtime and er401k whatever the flag.
C13_LinesFollowRecoverable ==
  [][nEmp' = nEmp + 1 =>
       LET a == findAlloc(allocation, emp'.name)
       IN  ~ a.none =>
             \A k \in DOMAIN invByKey : \A l \in CategorySet :
               invByKey'[k].breakdown[l] =
                 listAfter(invByKey[k].breakdown[l], emp', a, k, l, R(1, 100000))]_vars

\* the employees named on line l of some invoice
namedOn(l) ==
  UNION { {invByKey[k].breakdown[l][j].employee : j \in 1..Len(invByKey[k].breakdown[l])} :
            k \in DOMAIN invByKey }

\* C13 witness: the last payroll employee matched a recoverable record and is
\* on salaryREC, holREC and overtime, and on neither salaryNR nor holNR
C13_Witness ==
  /\ pc = "loop"
  /\ nEmp >= 1
  /\ findAlloc(allocation, emp.name).recoverable
  /\ emp.name \in namedOn("salaryREC") \cap namedOn("holREC") \cap namedOn("overtime")
  /\ emp.name \notin namedOn("salaryNR") \cup namedOn("holNR")

\* C14: a Contribution is appended exactly when |amount| >= 0.005.  The
\* threshold of add is 0.00001, so smaller amounts are recorded too.
C14_HalfCentThreshold ==
  [][nEmp' = nEmp + 1 =>
       LET a == findAlloc(allocation, emp'.name)
       IN  ~ a.none =>
             \A k \in DOMAIN invByKey : \A l \in CategorySet :
               invByKey'[k].breakdown[l] =
                 listAfter(invByKey[k].breakdown[l], emp', a, k, l, R(5, 1000))]_vars

\* the keys of the properties of the call
propertyKeys == {allocation.properties[i].key : i \in 1..Len(allocation.properties)}

\* C15: every property the record of the matched employee gives a non-zero
\* fraction has an invoice in the output, labelled with its key when the
\* property list does not name it.  add drops the amounts of such a key.
C15_ReferencedPropertyHasInvoice ==
  (pc = "done" /\ nEmp >= 1) =>
    LET a == findAlloc(allocation, emp.name)
    IN  ~ a.none =>
          \A k \in DOMAIN a.allocations :
            RLt(Zero, pickAllocPct(a.allocations[k])) =>
              \E i \in DOMAIN out :
                /\ out[i].propertyKey = k
                /\ k \notin propertyKeys => out[i].propertyLabel = k

\* the invoice o holds no Contribution at all
untouched(o) == \A l \in LineSet : o.breakdown[l] = <<>>

\* C16: the output holds exactly one invoice for each distinct key of
\* allocation.properties (and no other when the list is not empty), and an
\* invoice without contribution has its seven numbers 0.
C16_OneInvoicePerProperty ==
  pc = "done" =>
    /\ \A k \in propertyKeys : Cardinality({i \in DOMAIN out : out[i].propertyKey = k}) = 1
    /\ allocation.properties # <<>> => Len(out) = Cardinality(propertyKeys)
    /\ \A i \in DOMAIN out : untouched(out[i]) => \A l \in LineSet : out[i][l] = Zero

\* C16 witness: a property list that names a key twice, returned with one
\* invoice that holds contributions and one that holds none
C16_Witness ==
  /\ pc = "done"
  /\ Len(allocation.properties) > Cardinality(propertyKeys)
  /\ \E i \in DOMAIN out : untouched(out[i])
  /\ \E i \in DOMAIN out : out[i].salaryREC # Zero

\* C20: every breakdown list of a returned invoice holds at most one
\* Contribution per employee.  A payroll that lists an employee twice gets two.
C20_OneContributionPerEmployee ==
  pc = "done" =>
    \A i \in DOMAIN out : \A l \in CategorySet :
      \A j1, j2 \in 1..Len(out[i].breakdown[l]) :
        out[i].breakdown[l][j1].employee = out[i].breakdown[l][j2].employee => j1 = j2

\* C21: the breakdown of a returned invoice has lists for the six line
\* categories only; "total" has no list of Contributions and is not
\* accumulated on its own.  The entry loop calls add with the line "total",
\* which stores a list under that key and increases total once more.
C21_TotalHasNoBreakdown ==
  pc = "done" =>
    \A i \in DOMAIN out :
      /\ out[i].breakdown["total"] = <<>>
      /\ \A l \in LineSet : out[i].breakdown[l] # <<>> => l \in CategorySet

\* the pay component of employee e that line l is fed from
component(e, l) ==
  CASE l \in {"salaryREC", "salaryNR"} -> e.salaryAmt
    [] l \in {"holREC", "holNR"} -> e.holAmt
    [] l = "overtime" -> e.overtimeAmt
    [] OTHER -> e.er401k

\* C25: before the rounding, every Contribution of a category line has
\* amount = allocPct x baseAmount, where allocPct is the normalized fraction of
\* the entry of the employee's record for the property and baseAmount the pay
\* component of a payroll employee of that name, and the field of the line is
\* the sum of the amounts of its list.
C25_ContributionIsShareOfBase ==
  pc = "loop" =>
    \A k \in DOMAIN invByKey : \A l \in CategorySet :
      /\ invByKey[k][l] = RSumSeq(amounts(invByKey[k].breakdown[l]))
      /\ \A j \in 1..Len(invByKey[k].breakdown[l]) :
           LET c == invByKey[k].breakdown[l][j]
               a == findAlloc(allocation, c.employee)
           IN  /\ c.amount = RMul(c.allocPct, c.baseAmount)
               /\ ~ a.none
               /\ c.allocPct = pickAllocPct(a.allocations[k])
               /\ \E e \in PayrollEmployees :
                    e.name = c.employee /\ c.baseAmount = component(e, l)

\* C25 witness: a line with the Contributions of two payroll employees with
\* different base amounts
C25_Witness ==
  /\ pc = "loop"
  /\ \E k \in DOMAIN invByKey : \E l \in CategorySet :
       /\ Len(invByKey[k].breakdown[l]) = 2
       /\ invByKey[k].breakdown[l][1].baseAmount # invByKey[k].breakdown[l][2].baseAmount
       /\ invByKey[k][l] = RAdd(invByKey[k].breakdown[l][1].amount,
                                invByKey[k].breakdown[l][2].amount)

\* the lines that the pay component c of an employee is added to
linesOf(c) ==
  CASE c = "salaryAmt" -> {"salaryREC", "salaryNR"}
    [] c = "holAmt" -> {"holREC", "holNR"}
    [] c = "overtimeAmt" -> {"overtime"}
    [] OTHER -> {"er401k"}

\* the amount on the lines of component c over all invoices
invoiced(c) ==
  RSum([k \in DOMAIN invByKey |-> RSum(invByKey[k], linesOf(c))], DOMAIN invByKey)

\* the sum of the normalized percents of the entries of the record a
percentSum(a) ==
  RSum([k \in DOMAIN a.allocations |-> pickAllocPct(a.allocations[k])], DOMAIN a.allocations)

\* C27: after the iteration of the first payroll employee, resolved to a
\* record, the invoices together hold, for each pay component, the base
\* amount times the sum of the normalized percents of the record, up to the
\* dust of its entries.  The share of a key without invoice is lost (C15).
C27_NoDollarLost ==
  (pc = "loop" /\ nEmp = 1) =>
    LET a == findAlloc(allocation, emp.name)
    IN  ~ a.none =>
          \A c \in {"salaryAmt", "overtimeAmt", "holAmt", "er401k"} :
            RLe(RAbs(RSub(invoiced(c), RMul(emp[c], percentSum(a)))), R(3, 100000))

====
